---- MODULE Spec2Model ----
(***************************************************************************)
(* Model of billcut_chatbot.py: the Streamlit script that resolves the     *)
(* GOOGLE_API_KEY, builds a templated prompt, calls the Gemini generation  *)
(* endpoint once per submission and appends both turns to                  *)
(* st.session_state.messages.                                              *)
(*                                                                         *)
(* Python strings are sequences of tokens; the empty string is << >>.      *)
(* A Python value that may be None is a record [tag, val].                 *)
(***************************************************************************)
EXTENDS Integers, Sequences, FiniteSets, TLC

\* Bound on the number of submissions one session accepts in the model.
MaxSubmissions == 3

----------------------------------------------------------------------------
\* Python values

NoneVal == [tag |-> "None", val |-> << >>]

Str(s) == [tag |-> "str", val |-> s]

\* Python truthiness of an optional string: None and "" are falsy.
Truthy(v) == v.tag = "str" /\ v.val # << >>

----------------------------------------------------------------------------
\* Environment of the process: the two credential providers.
\* NoneVal for the secret stands for st.secrets raising KeyError,
\* NoneVal for the environment for os.environ.get returning None.

SecretValues == {NoneVal, Str(<< >>), Str(<<"secret-key">>)}

EnvValues == {NoneVal, Str(<< >>), Str(<<"env-key">>)}

\* What st.chat_input can yield on a script run that the user triggered.
ChatInputs == {<< >>, <<"fee", "?">>, <<"rate", "?">>}

\* Fixed strings of the program.
Greeting == <<"Hello! How can I assist you today?">>

ClientErrorText == <<"I encountered an error while processing your request.">>

error_message == <<"I'm sorry, I encountered an error processing your request.">>

FallbackSentence ==
    <<"I'm sorry, I cannot answer that question with the information I have.">>

\* The f-string of create_prompt up to, and after, the placeholder.
PromptHead == <<"persona", "COMPANY INFORMATION", "INSTRUCTIONS", "EXAMPLES",
                "Here is the user's question: '">>

PromptTail == <<"'">>

\* Texts the service can answer with (response.text), the empty text included.
ResponseTexts == {<< >>, <<"answer">>, FallbackSentence}

\* What one generate_content call followed by response.text can do.
Outcomes ==
    [kind : {"ok"}, text : ResponseTexts]
      \cup {[kind |-> "generate_raises", text |-> << >>],
            [kind |-> "text_raises", text |-> << >>]}

IsFailure(o) == o.kind # "ok" \/ o.text = << >>

----------------------------------------------------------------------------
\* Pure functions of the program

\* get_api_key: the secret when the key is present in st.secrets (whatever
\* its value), else the environment value when it is truthy, else None.
get_api_key(s, e) ==
    IF s.tag = "str" THEN s
    ELSE IF Truthy(e) THEN e
    ELSE NoneVal

\* `if api_key:` of the configuration block.
KeyUsableNotNone(k) == k.tag = "str"

KeyUsable(k) == Truthy(k)

create_prompt(user_message) == PromptHead \o user_message \o PromptTail

\* The argument main hands to get_gemini_response.
GenerationArgumentRaw(p) == p

GenerationArgument(p) == create_prompt(p)

\* get_gemini_response once the model object exists: the try block.
get_gemini_response(o) ==
    IF o.kind = "ok" THEN Str(o.text) ELSE Str(ClientErrorText)

Msg(r, c) == [role |-> r, content |-> c]

\* `if "messages" not in st.session_state: ...`
EnsureSeededAlways(has, store) == <<Msg("assistant", Greeting)>>

EnsureSeeded(has, store) ==
    IF ~has THEN <<Msg("assistant", Greeting)>> ELSE store

\* st.session_state.messages.append({"role": "user", "content": prompt})
AppendUserDeferred(store, p) == store

AppendUser(store, p) == Append(store, Msg("user", p))

\* `if response: ... else: ...` of main
HandleResponse(store, response) ==
    IF Truthy(response)
    THEN Append(store, Msg("assistant", response.val))
    ELSE Append(store, Msg("assistant", error_message))

----------------------------------------------------------------------------
VARIABLES
    secret,        \* st.secrets["GOOGLE_API_KEY"]
    env,           \* os.environ["GOOGLE_API_KEY"]
    pc,            \* position of the session's script thread
    api_key,       \* module-level api_key
    configured,    \* genai.configure has been called
    seeded,        \* "messages" in st.session_state
    messages,      \* st.session_state.messages
    prompt,        \* main's local `prompt` of the latest submission
    callArg,       \* argument of the generate_content call in flight
    inflight,      \* generate_content calls issued and not yet returned
    submissions,   \* submissions accepted (user messages appended)
    attempts,      \* generate_content invocations
    completed,     \* submissions for which main appended the assistant turn
    escaped,       \* exceptions that left get_gemini_response
    lastOutcome,   \* outcome of the latest generation call
    failureReplies \* assistant contents appended after a failed call

vars == <<secret, env, pc, api_key, configured, seeded, messages, prompt,
          callArg, inflight, submissions, attempts, completed, escaped,
          lastOutcome, failureReplies>>

NoOutcome == [kind |-> "none", text |-> << >>]

Init ==
    /\ secret \in SecretValues
    /\ env \in EnvValues
    /\ pc = "Start"
    /\ api_key = NoneVal
    /\ configured = FALSE
    /\ seeded = FALSE
    /\ messages = << >>
    /\ prompt = << >>
    /\ callArg = << >>
    /\ inflight = 0
    /\ submissions = 0
    /\ attempts = 0
    /\ completed = 0
    /\ escaped = 0
    /\ lastOutcome = NoOutcome
    /\ failureReplies = {}

\* The thread of the session is not inside a script run.
ScriptIdleOrBusy == pc \in {"Idle", "Processing"}

ScriptIdle == pc = "Idle"

\* A script run in which st.chat_input yields nothing: lines 27-31, then main
\* up to line 120.  Taken at first load and after st.rerun().
RunNoInput(from) ==
    /\ pc = from
    /\ api_key' = get_api_key(secret, env)
    /\ IF KeyUsable(api_key')
       THEN /\ configured' = TRUE
            /\ messages' = EnsureSeeded(seeded, messages)
            /\ seeded' = TRUE
            /\ pc' = "Idle"
       ELSE /\ pc' = "Stopped"
            /\ UNCHANGED <<configured, messages, seeded>>
    /\ UNCHANGED <<secret, env, prompt, callArg, inflight, submissions,
                   attempts, completed, escaped, lastOutcome, failureReplies>>

Startup == RunNoInput("Start")

Rerun == RunNoInput("Rerun")

\* The page is loaded again after st.stop(): the script runs from the top.
ReloadAfterStop ==
    /\ pc = "Stopped"
    /\ pc' = "Start"
    /\ UNCHANGED <<secret, env, api_key, configured, seeded, messages, prompt,
                   callArg, inflight, submissions, attempts, completed,
                   escaped, lastOutcome, failureReplies>>

\* The user interacts with the input box but st.chat_input yields an empty
\* value: `if prompt := ...` is false and the run ends.
SubmitEmpty(p) ==
    /\ ScriptIdle
    /\ p = << >>
    /\ api_key' = get_api_key(secret, env)
    /\ KeyUsable(api_key')
    /\ messages' = EnsureSeeded(seeded, messages)
    /\ UNCHANGED <<secret, env, pc, configured, seeded, prompt, callArg,
                   inflight, submissions, attempts, completed, escaped,
                   lastOutcome, failureReplies>>

\* A script run with a submission, up to the blocking generate_content call:
\* lines 27-31, 105-128 and line 43-45.
Submit(p) ==
    /\ ScriptIdle
    /\ submissions < MaxSubmissions
    /\ p # << >>
    /\ api_key' = get_api_key(secret, env)
    /\ KeyUsable(api_key')
    /\ configured' = TRUE
    /\ seeded' = TRUE
    /\ messages' = AppendUser(EnsureSeeded(seeded, messages), p)
    /\ prompt' = p
    /\ submissions' = submissions + 1
    /\ callArg' = GenerationArgument(p)
    /\ inflight' = inflight + 1
    /\ attempts' = attempts + 1
    /\ pc' = "Processing"
    /\ UNCHANGED <<secret, env, completed, escaped, lastOutcome,
                   failureReplies>>

\* The same run when genai.GenerativeModel(...) at line 43 raises: the call
\* is outside the try block, the exception leaves get_gemini_response and
\* main, and the script run ends with the user message already stored.
SubmitModelRaises(p) ==
    /\ ScriptIdle
    /\ submissions < MaxSubmissions
    /\ p # << >>
    /\ api_key' = get_api_key(secret, env)
    /\ KeyUsable(api_key')
    /\ configured' = TRUE
    /\ seeded' = TRUE
    /\ messages' = AppendUser(EnsureSeeded(seeded, messages), p)
    /\ prompt' = p
    /\ submissions' = submissions + 1
    /\ escaped' = escaped + 1
    /\ pc' = "Idle"
    /\ UNCHANGED <<secret, env, callArg, inflight, attempts, completed,
                   lastOutcome, failureReplies>>

\* The generation call resolves: rest of get_gemini_response (lines 45-49)
\* and of main (lines 130-141), ending in st.rerun().
GenerateReturns(o) ==
    /\ pc = "Processing"
    /\ inflight > 0
    /\ inflight' = inflight - 1
    /\ callArg' = << >>
    /\ lastOutcome' = o
    /\ messages' = HandleResponse(messages, get_gemini_response(o))
    /\ completed' = completed + 1
    /\ failureReplies' =
         IF IsFailure(o)
         THEN failureReplies \cup {messages'[Len(messages')].content}
         ELSE failureReplies
    /\ pc' = "Rerun"
    /\ UNCHANGED <<secret, env, api_key, configured, seeded, prompt,
                   submissions, attempts, escaped>>

Next ==
    \/ Startup
    \/ Rerun
    \/ ReloadAfterStop
    \/ \E p \in ChatInputs : SubmitEmpty(p)
    \/ \E p \in ChatInputs : Submit(p)
    \/ \E p \in ChatInputs : SubmitModelRaises(p)
    \/ \E o \in Outcomes : GenerateReturns(o)

Spec == Init /\ [][Next]_vars

----------------------------------------------------------------------------
\* Helpers of the properties

Last(store) == store[Len(store)]

IsPrefix(s, t) == Len(s) <= Len(t) /\ SubSeq(t, 1, Len(s)) = s

\* The credential the two providers should yield when the first non-empty
\* one wins; NoneVal when neither is non-empty.
FirstNonEmpty(s, e) ==
    IF Truthy(s) THEN s ELSE IF Truthy(e) THEN e ELSE NoneVal

\* The credential a resolved api_key stands for: a falsy key is no credential.
Credential(k) == IF Truthy(k) THEN k ELSE NoneVal

----------------------------------------------------------------------------
\* C1: whenever the generation call fails (generate_content raises,
\* response.text raises, or the text is empty) main appends exactly one
\* assistant message, the content of that message is one and the same fixed
\* apology for every kind of failure, and the user message of the submission
\* is still right before it, unchanged.
C1_FixedApology ==
    /\ Cardinality(failureReplies) <= 1
    /\ (pc = "Rerun" /\ IsFailure(lastOutcome)) =>
          /\ Len(messages) >= 2
          /\ Last(messages).role = "assistant"
          /\ Last(messages).content \in failureReplies
          /\ messages[Len(messages) - 1] = Msg("user", prompt)

\* C2: get_api_key yields the secret if it is non-empty, otherwise the
\* environment value if that is non-empty, and no credential only when
\* neither provider yields a non-empty value.
C2_FirstNonEmpty ==
    pc # "Start" => Credential(api_key) = FirstNonEmpty(secret, env)

\* C3: if neither credential source yields a non-empty value, startup halts
\* before the session loop: genai.configure is never called, no generation
\* call is ever issued and no message is ever appended.
C3_NoCredentialHalts ==
    (~Truthy(secret) /\ ~Truthy(env)) =>
        /\ pc \in {"Start", "Stopped"}
        /\ ~configured
        /\ ~seeded
        /\ messages = << >>
        /\ attempts = 0
        /\ inflight = 0
        /\ submissions = 0

C3_Witness ==
    /\ pc = "Stopped"
    /\ ~Truthy(secret)
    /\ ~Truthy(env)
    /\ secret = Str(<< >>)

\* C4: no exception ever leaves get_gemini_response, whichever of its steps
\* fails, so every accepted submission reaches the append of an assistant
\* message before the session is idle again.
C4_NeverEscapes ==
    /\ escaped = 0
    /\ (pc = "Idle" => completed = submissions)

C6_UserAppendedBeforeCall ==
    inflight > 0 =>
        /\ Len(messages) >= 2
        /\ Last(messages) = Msg("user", prompt)

C6_Witness ==
    /\ inflight = 1
    /\ Len(messages) >= 4
    /\ Last(messages).role = "user"

\* C7: in every Idle state after N completed submissions the store has
\* length 2N+1: the one seed greeting followed by N (user, assistant) pairs.
C7_SeedThenPairs ==
    pc = "Idle" =>
        /\ Len(messages) = 2 * completed + 1
        /\ messages[1] = Msg("assistant", Greeting)
        /\ \A i \in 1..completed :
              /\ messages[2 * i].role = "user"
              /\ messages[2 * i + 1].role = "assistant"

\* C8: the store is append-only: over every transition (submission,
\* successful result, failed result, rerun) the store before is a prefix of
\* the store after.
C8_AppendOnly == [][IsPrefix(messages, messages')]_vars

C8_Witness ==
    /\ pc = "Idle"
    /\ completed = 2
    /\ IsFailure(lastOutcome)
    /\ Len(messages) = 5

\* C9: the argument of every generation call is the built prompt of the
\* latest submission alone: the template around the submitted text, never the
\* raw text, and independent of the earlier messages of the store.
C9_BuiltPromptSent ==
    inflight > 0 =>
        /\ callArg = PromptHead \o prompt \o PromptTail
        /\ callArg # prompt
        /\ prompt = Last(messages).content

C9_Witness ==
    /\ inflight = 1
    /\ submissions >= 2
    /\ messages[2].content # prompt
    /\ callArg = create_prompt(prompt)

\* C10: every accepted submission causes exactly one generation attempt: the
\* number of generate_content invocations always equals the number of
\* submissions accepted.
C10_OneAttemptPerSubmission == attempts = submissions

====
